---------------------------- MODULE Spec2Model ----------------------------
(***************************************************************************)
(* A model of the RAG chat backend's text chunker                          *)
(* (app/rag/text_processing.py, TextProcessor) and of its incremental      *)
(* ingestion pipeline (app/rag/ingestion.py, ContentIngester).             *)
(*                                                                         *)
(* Strings are sequences of one-character strings, so that len(), split(), *)
(* join() and the regular expressions of the code are computed character   *)
(* by character.                                                           *)
(***************************************************************************)
EXTENDS Integers, Sequences, FiniteSets, TLC

VARIABLES
    text,           \* chunker run: the argument of chunk_text
    chunk_size,     \* chunker run: TextProcessor.chunk_size
    chunk_overlap,  \* chunker run: TextProcessor.chunk_overlap
    ct_pc,          \* chunker run: "call" before chunk_text ran, "done" after
    ct_out,         \* chunker run: what chunk_text computed
    pp_post,        \* post processor run: the argument of process_post
    pp_pc,          \* post processor run: "call" before process_post ran, "done" after
    pp_out,         \* post processor run: what process_post returned or raised
    listing,        \* the content source: the entries of the _posts directory
    collection,     \* the vector index: chunk id -> [document, metadata]
    progress,       \* ContentIngester._progress
    run,            \* per update_content call: its local variables and position
    last_run,       \* what the last finished update_content call fetched and returned
    observed        \* what the last status query (GET /rag/progress) returned

chunkVars == <<text, chunk_size, chunk_overlap, ct_pc, ct_out>>

postVars == <<pp_post, pp_pc, pp_out>>

pipeVars == <<listing, collection, progress, run, last_run, observed>>

vars == <<chunkVars, postVars, pipeVars>>

----------------------------------------------------------------------------
(* Bounds of the chunker's inputs.                                         *)

MaxTextLen == 7
MaxChunkSize == 4
MaxOverlap == 3

\* One letter, one sentence terminator, one whitespace character.
Alphabet == {"a", ".", " "}

Texts == UNION {[1..n -> Alphabet] : n \in 0..MaxTextLen}

----------------------------------------------------------------------------
(* String primitives, as Python and the re module compute them.            *)

\* The characters \s matches and str.strip()/str.split() treat as blank.
Whitespace == {" ", "\n", "\t"}

\* The character class [.!?] of the sentence-boundary lookbehind.
Terminal == {".", "!", "?"}

\* The indices of a string, in order.
Indices(t) == [i \in 1..Len(t) |-> i]

\* str.strip(): from the first to the last character that is not blank.
Strip(t) ==
    LET solid(i) == t[i] \notin Whitespace
        at == SelectSeq(Indices(t), solid)
    IN IF at = <<>> THEN <<>> ELSE SubSeq(t, at[1], at[Len(at)])

\* re.sub(r'\s+', ' ', text): every maximal whitespace run becomes one space.
CollapseWhitespace(t) ==
    LET kept(i) == t[i] \notin Whitespace \/ i = 1 \/ t[i - 1] \notin Whitespace
        at == SelectSeq(Indices(t), kept)
    IN [n \in 1..Len(at) |-> IF t[at[n]] \in Whitespace THEN " " ELSE t[at[n]]]

\* The first index >= i of t that holds no whitespace (Len(t)+1 if none).
RECURSIVE SkipWhitespace(_, _)
SkipWhitespace(t, i) ==
    IF i <= Len(t) /\ t[i] \in Whitespace THEN SkipWhitespace(t, i + 1) ELSE i

\* re.split(r'(?<=[.!?])\s+', text): a whitespace run that follows a
\* terminator separates two pieces.
SplitSentences(t) ==
    LET boundary(i) == t[i] \in Whitespace /\ i > 1 /\ t[i - 1] \in Terminal
        at == SelectSeq(Indices(t), boundary)
    IN [n \in 1..(Len(at) + 1) |->
          SubSeq(t,
                 IF n = 1 THEN 1 ELSE SkipWhitespace(t, at[n - 1]),
                 IF n = Len(at) + 1 THEN Len(t) ELSE at[n] - 1)]

\* str.split(): the maximal whitespace-free runs, in order.
Words(s) ==
    LET first(i) == s[i] \notin Whitespace /\ (i = 1 \/ s[i - 1] \in Whitespace)
        last(i) == s[i] \notin Whitespace /\ (i = Len(s) \/ s[i + 1] \in Whitespace)
        from == SelectSeq(Indices(s), first)
        to == SelectSeq(Indices(s), last)
    IN [n \in 1..Len(from) |-> SubSeq(s, from[n], to[n])]

\* sep.join(parts)
RECURSIVE JoinWith(_, _)
JoinWith(sep, parts) ==
    IF parts = <<>> THEN <<>>
    ELSE IF Len(parts) = 1 THEN parts[1]
         ELSE LET half == Len(parts) \div 2 IN
              JoinWith(sep, SubSeq(parts, 1, half)) \o sep
                \o JoinWith(sep, SubSeq(parts, half + 1, Len(parts)))

\* ' '.join(parts)
Join(parts) == JoinWith(<<" ">>, parts)

\* sum(len(word) for word in parts)
RECURSIVE SumLen(_)
SumLen(parts) ==
    IF parts = <<>> THEN 0
    ELSE IF Len(parts) = 1 THEN Len(parts[1])
         ELSE LET half == Len(parts) \div 2 IN
              SumLen(SubSeq(parts, 1, half))
                + SumLen(SubSeq(parts, half + 1, Len(parts)))

HasWhitespace(s) == \E i \in 1..Len(s) : s[i] \in Whitespace

----------------------------------------------------------------------------
(* TextProcessor.chunk_text.  The accumulator of the loop is a record      *)
(*   chunks          the chunks emitted so far                             *)
(*   seeds           for each emitted chunk, the overlap window            *)
(*                   (' '.join(overlap_words)) its accumulator was started  *)
(*                   with, <<>> when it was started without one            *)
(*   current_chunk, current_length   the variables of the same names       *)
(*   seed            the overlap window current_chunk was started with     *)

EmptyAcc ==
    [chunks |-> <<>>, seeds |-> <<>>, current_chunk |-> <<>>,
     current_length |-> 0, seed |-> <<>>]

\* chunks.append(' '.join(current_chunk)), guarded by "if current_chunk".
Flush(acc) ==
    IF acc.current_chunk # <<>>
    THEN [acc EXCEPT !.chunks = Append(@, Join(acc.current_chunk)),
                     !.seeds = Append(@, acc.seed)]
    ELSE acc

\* The test of the overlap loop: does one more word still fit the window?
OverlapFitsLate(overlap_length, word, O) == overlap_length < O

OverlapFits(overlap_length, word, O) ==
    ~(overlap_length + Len(word) + 1 > O)

\* The loop "for word in reversed(current_chunk)", at element k.
RECURSIVE OverlapWords(_, _, _, _, _)
OverlapWords(cur, k, overlap_words, overlap_length, O) ==
    IF k = 0 THEN overlap_words
    ELSE IF ~OverlapFits(overlap_length, cur[k], O) THEN overlap_words
    ELSE OverlapWords(cur, k - 1, <<cur[k]>> \o overlap_words,
                      overlap_length + Len(cur[k]) + 1, O)

\* The word loop of an over-long sentence: p = [chunks, seeds, piece, plen].
RECURSIVE SplitLong(_, _, _, _)
SplitLong(p, words, k, S) ==
    IF k > Len(words) THEN p
    ELSE
      LET word == words[k]
          word_length == Len(word)
          sep == IF p.piece # <<>> THEN 1 ELSE 0
      IN IF p.plen + word_length + sep > S
         THEN SplitLong(
                [chunks |-> IF p.piece # <<>>
                            THEN Append(p.chunks, Join(p.piece))
                            ELSE p.chunks,
                 seeds  |-> IF p.piece # <<>>
                            THEN Append(p.seeds, <<>>)
                            ELSE p.seeds,
                 piece  |-> <<word>>,
                 plen   |-> word_length],
                words, k + 1, S)
         \* the piece is never empty once the word is appended, so the
         \* separator is counted for the first word too
         ELSE SplitLong(
                [p EXCEPT !.piece = Append(@, word),
                          !.plen = @ + word_length + 1],
                words, k + 1, S)

\* One iteration of "for sentence in sentences".
ChunkSentence(acc, sentence, S, O) ==
    LET sentence_length == Len(sentence) IN
    IF sentence_length > S
    THEN LET flushed == Flush(acc)
             p == SplitLong([chunks |-> flushed.chunks, seeds |-> flushed.seeds,
                             piece |-> <<>>, plen |-> 0],
                            Words(sentence), 1, S)
         IN IF p.piece # <<>>
            THEN [chunks |-> p.chunks, seeds |-> p.seeds,
                  current_chunk |-> p.piece, current_length |-> p.plen,
                  seed |-> <<>>]
            ELSE [chunks |-> p.chunks, seeds |-> p.seeds,
                  current_chunk |-> <<>>, current_length |-> 0,
                  seed |-> <<>>]
    ELSE IF acc.current_length + sentence_length
              + (IF acc.current_chunk # <<>> THEN 1 ELSE 0) > S
    THEN LET flushed == Flush(acc) IN
         IF O > 0 /\ acc.current_chunk # <<>>
         THEN LET overlap_words ==
                      OverlapWords(acc.current_chunk, Len(acc.current_chunk),
                                   <<>>, 0, O)
                  next == overlap_words \o <<sentence>>
              IN [flushed EXCEPT
                    !.current_chunk = next,
                    !.current_length = SumLen(next) + Len(next) - 1,
                    !.seed = Join(overlap_words)]
         ELSE [flushed EXCEPT
                 !.current_chunk = <<sentence>>,
                 !.current_length = sentence_length,
                 !.seed = <<>>]
    ELSE [acc EXCEPT
            !.current_chunk = Append(@, sentence),
            !.current_length =
                @ + sentence_length
                  + (IF Len(acc.current_chunk) + 1 > 1 THEN 1 ELSE 0)]

\* The loop "for sentence in sentences" over sentences[lo..hi], the first
\* half and then the second.  The test on half makes the accumulator of the
\* first half a value before the second half starts, as the loop runs in
\* order; it is always true.
RECURSIVE ChunkLoop(_, _, _, _, _, _)
ChunkLoop(acc, sentences, lo, hi, S, O) ==
    IF lo > hi THEN acc
    ELSE IF lo = hi THEN ChunkSentence(acc, sentences[lo], S, O)
    ELSE LET mid == (lo + hi) \div 2
             half == ChunkLoop(acc, sentences, lo, mid, S, O)
         IN IF Len(half.chunks) >= 0
            THEN ChunkLoop(half, sentences, mid + 1, hi, S, O)
            ELSE half

\* chunk_text without its test of an empty text.
ChunkTextNoGuard(t, S, O) ==
    LET clean == Strip(CollapseWhitespace(t))
        sentences == SplitSentences(clean)
        acc == ChunkLoop(EmptyAcc, sentences, 1, Len(sentences), S, O)
        keep == acc.current_chunk # <<>> /\ acc.current_length <= S
        out == IF keep THEN Flush(acc) ELSE acc
    IN [chunks |-> out.chunks, seeds |-> out.seeds,
        final |-> acc.current_chunk, final_length |-> acc.current_length,
        final_seed |-> acc.seed]

\* chunk_text(text) of a TextProcessor with chunk_size S and chunk_overlap O.
\* Beside the returned chunks the result keeps their seeds and the final
\* accumulator, emitted or dropped, with its length as the code counts it
\* and the overlap window it was started with.
ChunkText(t, S, O) ==
    IF Strip(t) = <<>>
    THEN [chunks |-> <<>>, seeds |-> <<>>, final |-> <<>>, final_length |-> 0,
          final_seed |-> <<>>]
    ELSE LET clean == Strip(CollapseWhitespace(t))
             sentences == SplitSentences(clean)
             acc == ChunkLoop(EmptyAcc, sentences, 1, Len(sentences), S, O)
             keep == acc.current_chunk # <<>> /\ acc.current_length <= S
             out == IF keep THEN Flush(acc) ELSE acc
         IN [chunks |-> out.chunks, seeds |-> out.seeds,
             final |-> acc.current_chunk, final_length |-> acc.current_length,
        final_seed |-> acc.seed]

NoOutput ==
    [chunks |-> <<>>, seeds |-> <<>>, final |-> <<>>, final_length |-> 0,
     final_seed |-> <<>>]

----------------------------------------------------------------------------
(* Python values.  None and an optional integer are <<>> and <<n>>; a str  *)
(* is [str |-> characters], an int [int |-> n], a list [list |-> items].   *)

None == <<>>
Some(n) == <<n>>

PyStr(s) == [str |-> s]
PyInt(n) == [int |-> n]
PyList(items) == [list |-> items]

IsStr(v) == "str" \in DOMAIN v
IsInt(v) == "int" \in DOMAIN v
IsList(v) == "list" \in DOMAIN v

DigitChars == <<"0", "1", "2", "3", "4", "5", "6", "7", "8", "9">>

\* The decimal numeral of n, as str(n) and an f-string write it.
RECURSIVE Decimal(_)
Decimal(n) ==
    IF n < 0 THEN <<"-">> \o Decimal(0 - n)
    ELSE IF n < 10 THEN <<DigitChars[n + 1]>>
    ELSE Decimal(n \div 10) \o <<DigitChars[(n % 10) + 1]>>

\* str(v) of a scalar.
Str(v) == IF IsStr(v) THEN v ELSE PyStr(Decimal(v.int))

\* {**base, **over}
Merge(base, over) ==
    [k \in DOMAIN base \cup DOMAIN over |->
        IF k \in DOMAIN over THEN over[k] ELSE base[k]]

\* A formatted message: the f-string's fixed text and its interpolated values.
Fmt(template, args) == [text |-> template, args |-> args]

\* seq[:n] of Python, n an integer of either sign.
SliceTo(seq, n) ==
    IF n >= 0
    THEN SubSeq(seq, 1, IF n < Len(seq) THEN n ELSE Len(seq))
    ELSE SubSeq(seq, 1, IF Len(seq) + n > 0 THEN Len(seq) + n ELSE 0)

----------------------------------------------------------------------------
(* ContentIngester._is_post_file and the sort of the candidate files.      *)

Digits == {DigitChars[i] : i \in 1..10}

\* The characters of the model's names, in code point order.
Ascii ==
    <<"\n", " ", "-", ".", "0", "1", "2", "3", "4", "5", "6", "7", "8", "9",
      "A", "D", "E", "M", "R", "a", "b", "d", "e", "g", "m", "x">>

CodePoint(c) == CHOOSE i \in 1..Len(Ascii) : Ascii[i] = c

\* Whether '\d{4}-\d{2}-\d{2}-.*\.md' matches name[1..n] as a whole.
MatchesUpTo(name, n) ==
    /\ n >= 14
    /\ \A i \in {1, 2, 3, 4, 6, 7, 9, 10} : name[i] \in Digits
    /\ \A i \in {5, 8, 11} : name[i] = "-"
    /\ \A i \in 12..(n - 3) : name[i] # "\n"
    /\ SubSeq(name, n - 2, n) = <<".", "m", "d">>

\* re.match(r'^\d{4}-\d{2}-\d{2}-.*\.md$', filename): $ matches at the end
\* and before a newline that ends the string.
IsPostFile(name) ==
    \/ MatchesUpTo(name, Len(name))
    \/ /\ Len(name) >= 1
       /\ name[Len(name)] = "\n"
       /\ MatchesUpTo(name, Len(name) - 1)

\* str.split(sep) for a one-character separator.
RECURSIVE SplitOn(_, _, _, _)
SplitOn(s, sep, i, cur) ==
    IF i > Len(s) THEN <<cur>>
    ELSE IF s[i] = sep THEN <<cur>> \o SplitOn(s, sep, i + 1, <<>>)
    ELSE SplitOn(s, sep, i + 1, Append(cur, s[i]))

\* The sort key of a file: x["name"].split("-")[:3].
SortKey(file) == SliceTo(SplitOn(file.name, "-", 1, <<>>), 3)

\* s < t for two str, by code points.
RECURSIVE StrLess(_, _)
StrLess(s, t) ==
    IF t = <<>> THEN FALSE
    ELSE IF s = <<>> THEN TRUE
    ELSE IF Head(s) = Head(t) THEN StrLess(Tail(s), Tail(t))
    ELSE CodePoint(Head(s)) < CodePoint(Head(t))

\* a < b for two lists of str.
RECURSIVE KeyLess(_, _)
KeyLess(a, b) ==
    IF b = <<>> THEN FALSE
    ELSE IF a = <<>> THEN TRUE
    ELSE IF Head(a) = Head(b) THEN KeyLess(Tail(a), Tail(b))
    ELSE StrLess(Head(a), Head(b))

\* Insert file f into the descending list: after every file whose key is not
\* smaller, so that files of equal keys keep their order (list.sort is stable).
RECURSIVE InsertDescending(_, _)
InsertDescending(sorted, f) ==
    IF sorted = <<>> THEN <<f>>
    ELSE IF KeyLess(SortKey(Head(sorted)), SortKey(f))
         THEN <<f>> \o sorted
         ELSE <<Head(sorted)>> \o InsertDescending(Tail(sorted), f)

\* files.sort(key=..., reverse=True)
RECURSIVE SortDescending(_, _)
SortDescending(files, k) ==
    IF k = 0 THEN <<>>
    ELSE InsertDescending(SortDescending(files, k - 1), files[k])

\* [f for f in response.json() if f["type"] == "file" and is_post_file(f["name"])]
RECURSIVE FilterPosts(_)
FilterPosts(entries) ==
    IF entries = <<>> THEN <<>>
    ELSE IF Head(entries).type = "file" /\ IsPostFile(Head(entries).name)
         THEN <<Head(entries)>> \o FilterPosts(Tail(entries))
         ELSE FilterPosts(Tail(entries))

\* The files fetch_markdown_content selects, before the truncation.
SortedPosts(entries) ==
    LET files == FilterPosts(entries) IN SortDescending(files, Len(files))

\* files[:1] when most_recent_only, files[:num_posts] when num_posts is set.
SelectFiles(files, most_recent_only, num_posts) ==
    IF most_recent_only THEN SliceTo(files, 1)
    ELSE IF num_posts # None THEN SliceTo(files, num_posts[1])
    ELSE files

----------------------------------------------------------------------------
(* The configured text processing settings (config.py CHUNK_SIZE and       *)
(* CHUNK_OVERLAP), scaled down to the size of the model's documents.       *)

CHUNK_SIZE == 4
CHUNK_OVERLAP == 2

\* TextProcessor.__init__: a missing or zero argument falls back to the settings.
TextProcessorInit(size_arg, overlap_arg) ==
    [chunk_size    |-> IF size_arg = None \/ size_arg = Some(0)
                       THEN CHUNK_SIZE ELSE size_arg[1],
     chunk_overlap |-> IF overlap_arg = None \/ overlap_arg = Some(0)
                       THEN CHUNK_OVERLAP ELSE overlap_arg[1]]

\* ContentIngester.__init__: self.text_processor = TextProcessor()
text_processor == TextProcessorInit(None, None)

----------------------------------------------------------------------------
(* Documents.  The raw text of a post is kept as the front-matter library  *)
(* parses it: block says whether the text opens with a metadata block      *)
(* ("none"), one that parses ("ok") or one whose YAML does not ("invalid");*)
(* fields are the parsed values, body the text after the block.            *)

Chars_ab == <<"a", "b", ".">>

\* n copies of part.
Repeat(part, n) == [i \in 1..n |-> part]

\* The number of sentences of the long document.
LongDocSentences == 100

ShaA == <<"s", "a">>
ShaLong == <<"s", "g">>
ShaEmpty == <<"s", "e">>
ShaBad == <<"s", "x">>
ShaOther == <<"s", "r">>

NoFields == [k \in {} |-> PyStr(<<>>)]

\* The file content of each blob hash.
Content(sha) ==
    IF sha = ShaA
    THEN [block |-> "ok",
          fields |-> [title |-> PyStr(<<"A">>),
                      tags |-> PyList(<<PyStr(<<"a">>), PyInt(1)>>)],
          body |-> <<"a", "b", ".", " ", "\n", "a", "b", ".">>]
    ELSE IF sha = ShaLong
    THEN [block |-> "none", fields |-> NoFields,
          body |-> Join(Repeat(Chars_ab, LongDocSentences))]
    ELSE IF sha = ShaEmpty
    THEN [block |-> "none", fields |-> NoFields, body |-> <<" ", "\n">>]
    ELSE IF sha = ShaBad
    THEN [block |-> "invalid", fields |-> NoFields, body |-> <<"a", ".">>]
    ELSE [block |-> "none", fields |-> NoFields, body |-> <<"a", ".">>]

\* not post["content"].strip()
IsBlank(content) == content.block = "none" /\ Strip(content.body) = <<>>

\* What the YAML parser raises on a metadata block it cannot parse.
YamlError == <<"y", "a", "m", "l">>

\* TextProcessor._extract_metadata: every value rendered as a str.
ExtractMetadataRaw(content) == content.fields

ExtractMetadata(content) ==
    [key \in DOMAIN content.fields |->
        LET value == content.fields[key] IN
        IF IsList(value)
        THEN PyStr(JoinWith(<<",", " ">>,
                            [i \in 1..Len(value.list) |-> Str(value.list[i]).str]))
        ELSE Str(value)]

\* TextProcessor._remove_frontmatter
RemoveFrontmatter(content) == content.body

\* f"{post['id']}_chunk_{i}"
ChunkIdNoIndex(post_id, i) ==
    post_id \o <<"_", "c", "h", "u", "n", "k", "_">>

ChunkId(post_id, i) ==
    post_id \o <<"_", "c", "h", "u", "n", "k", "_">> \o Decimal(i)

\* TextProcessor.process_post: [raised, chunks]; raised is the text of the
\* exception the call ends with, None when it returns.
ProcessPost(post) ==
    IF IsBlank(post.content) THEN [raised |-> None, chunks |-> <<>>]
    ELSE IF post.content.block = "invalid"
    THEN [raised |-> Some(YamlError), chunks |-> <<>>]
    ELSE
      LET metadata == ExtractMetadata(post.content)
          content == RemoveFrontmatter(post.content)
          chunks == ChunkText(content, text_processor.chunk_size,
                              text_processor.chunk_overlap).chunks
      IN [raised |-> None,
          chunks |->
            [n \in 1..Len(chunks) |->
              [id |-> ChunkId(post.id, n - 1),
               content |-> chunks[n],
               metadata |->
                 Merge(metadata,
                       [post_name |-> PyStr(post.name),
                        url |-> PyStr(post.url),
                        chunk_index |-> PyInt(n - 1),
                        total_chunks |-> PyInt(Len(chunks))])]]]

----------------------------------------------------------------------------
(* The content source: the directory listings the model draws from.        *)

Name(date, slug) ==
    <<"2", "0", "2", "4", "-", "0", date[1], "-", "0", date[2], "-",
      slug, ".", "m", "d">>

File(name, sha, n) ==
    [name |-> name, type |-> "file", sha |-> sha,
     download_url |-> <<"r", n>>, html_url |-> <<"h", n>>]

Readme ==
    File(<<"R", "E", "A", "D", "M", "E", ".", "m", "d">>, ShaOther, "0")

Directory ==
    [File(Name(<<"1", "5">>, "d"), ShaOther, "9") EXCEPT !.type = "dir"]

\* Two files of the same content under two names, and a long document that
\* is the oldest of the three.
ListingDuplicates ==
    <<Readme,
      Directory,
      File(Name(<<"1", "3">>, "a"), ShaA, "1"),
      File(Name(<<"1", "4">>, "b"), ShaA, "2"),
      File(Name(<<"1", "1">>, "g"), ShaLong, "3")>>

\* An empty document, a document, and one whose metadata block is invalid.
ListingMixed ==
    <<File(Name(<<"2", "2">>, "a"), ShaA, "4"),
      File(Name(<<"2", "3">>, "e"), ShaEmpty, "5"),
      File(Name(<<"2", "1">>, "x"), ShaBad, "6")>>

\* No entry is a post.
ListingNoPosts == <<Readme, Directory>>

Listings == {ListingDuplicates, ListingMixed, ListingNoPosts}

----------------------------------------------------------------------------
(* ContentIngester: progress tracking.                                     *)

\* update_progress: the new value of self._progress.
UpdateProgress(stage, current, total, message) ==
    [stage |-> stage, current |-> current, total |-> total, message |-> message]

\* __init__: self._progress
InitialProgress == UpdateProgress("", 0, 0, Fmt("", <<>>))

\* The progress writes of the code, one definition for each call.
ProgressStarting ==
    UpdateProgress("starting", 0, 0, Fmt("Starting content update", <<>>))

ProgressDownloadingStart(n) ==
    UpdateProgress("downloading", 0, n, Fmt("Downloading markdown files", <<>>))

ProgressDownloading(i, n, name) ==
    UpdateProgress("downloading", i, n, Fmt("Downloading: {}", <<name>>))

ProgressProcessingStart(n) ==
    UpdateProgress("processing", 0, n, Fmt("Processing posts into chunks", <<>>))

ProgressSkippingWrongStage(i, n, name) ==
    UpdateProgress("downloading", i, n,
                   Fmt("Skipping already processed post: {}", <<name>>))

ProgressSkippingNoAdvance(i, n, name) ==
    UpdateProgress("processing", i - 1, n,
                   Fmt("Skipping already processed post: {}", <<name>>))

ProgressSkipping(i, n, name) ==
    UpdateProgress("processing", i, n,
                   Fmt("Skipping already processed post: {}", <<name>>))

ProgressProcessing(i, n, name) ==
    UpdateProgress("processing", i, n, Fmt("Processing new post: {}", <<name>>))

ProgressStoringStart(total) ==
    UpdateProgress("storing", 0, total, Fmt("Storing chunks in ChromaDB", <<>>))

\* i is the offset of the batch, n its length.
ProgressStoringBatch(i, n, total) ==
    UpdateProgress("storing", i + n, total,
                   Fmt("Storing chunks {}-{}", <<Decimal(i + 1), Decimal(i + n)>>))

ProgressComplete(total) ==
    UpdateProgress("complete", total, total,
                   Fmt("Successfully stored all chunks", <<>>))

ProgressNothingNew ==
    UpdateProgress("complete", 0, 0, Fmt("No new content to process", <<>>))

----------------------------------------------------------------------------
(* ContentIngester: the vector index.                                      *)

EmptyCollection == [id \in {} |-> [document |-> <<>>, metadata |-> NoFields]]

\* The metadata mapping process_and_store_content hands to upsert.
UpsertMetadataAsIs(chunk) == chunk.metadata

UpsertMetadata(chunk) ==
    Merge(chunk.metadata,
          [url |-> chunk.metadata.url,
           post_name |-> Str(chunk.metadata.post_name),
           chunk_index |-> Str(chunk.metadata.chunk_index),
           total_chunks |-> Str(chunk.metadata.total_chunks),
           post_id |-> Str(chunk.metadata.post_id)])

\* The index after collection.upsert of a batch: each id holds the document
\* and metadata of its last occurrence in the batch.
UpsertNothing(coll, batch) == coll

UpsertOnlyBatch(coll, batch) ==
    [id \in {batch[n].id : n \in 1..Len(batch)} |->
        LET n == CHOOSE m \in 1..Len(batch) : batch[m].id = id
        IN [document |-> batch[n].content, metadata |-> UpsertMetadata(batch[n])]]

Upsert(coll, batch) ==
    LET ids == {batch[n].id : n \in 1..Len(batch)}
        last(id) == CHOOSE n \in 1..Len(batch) :
                        /\ batch[n].id = id
                        /\ \A m \in (n + 1)..Len(batch) : batch[m].id # id
    IN [id \in DOMAIN coll \cup ids |->
          IF id \in ids
          THEN [document |-> batch[last(id)].content,
                metadata |-> UpsertMetadata(batch[last(id)])]
          ELSE coll[id]]

NoneText == <<"N", "o", "n", "e">>

\* _get_existing_post_ids, when count() and get() return.
ExistingPostIdsForgotten(coll) == {}

ExistingPostIds(coll) ==
    IF Cardinality(DOMAIN coll) = 0 THEN {}
    ELSE {coll[id].metadata.post_id :
            id \in {x \in DOMAIN coll :
                      /\ "post_id" \in DOMAIN coll[x].metadata
                      /\ coll[x].metadata.post_id # PyStr(NoneText)}}

\* The batch of the storing loop that starts at offset i:
\* all_chunks[i:i + batch_size].
batch_size == 100

BatchAtShort(all_chunks, i) ==
    SubSeq(all_chunks, i + 1,
           IF i + batch_size - 1 < Len(all_chunks)
           THEN i + batch_size - 1 ELSE Len(all_chunks))

BatchAt(all_chunks, i) ==
    SubSeq(all_chunks, i + 1,
           IF i + batch_size < Len(all_chunks)
           THEN i + batch_size ELSE Len(all_chunks))

\* chunk["metadata"]["post_id"] = post["id"], for every chunk of a post.
TagChunks(chunks, post) ==
    [n \in 1..Len(chunks) |->
        [chunks[n] EXCEPT !.metadata = Merge(@, [post_id |-> PyStr(post.id)])]]

\* The test that decides whether a fetched post is skipped.
AlreadyProcessedNever(post, existing_post_ids) == FALSE

AlreadyProcessed(post, existing_post_ids) ==
    PyStr(post.id) \in existing_post_ids

----------------------------------------------------------------------------
(* ContentIngester.update_content: its results and the exceptions that end *)
(* a run.                                                                  *)

\* The text of the exceptions the collaborators raise.
ListingError == <<"4", "0", "3">>
DownloadError == <<"4", "0", "4">>
IndexError == <<"l", "i", "s", "t">>       \* list index out of range
UpsertError == <<"d", "b">>

SuccessResult(posts, chunk_count, pr) ==
    [status |-> "success",
     message |-> Fmt("Updated {} posts with {} chunks",
                     <<Decimal(Len(posts)), Decimal(chunk_count)>>),
     progress |-> pr]

ErrorResultNoText(e, pr) ==
    [status |-> "error",
     message |-> Fmt("Error during content update: {}", <<>>),
     progress |-> pr]

ErrorResult(e, pr) ==
    [status |-> "error",
     message |-> Fmt("Error during content update: {}", <<e>>),
     progress |-> pr]

NoResult == [status |-> "", message |-> Fmt("", <<>>), progress |-> InitialProgress]

NoRun == [status |-> "", files |-> <<>>]

\* The local variables of one update_content call.  The fields after result
\* record what the call did: the exception that ended it, whether the scan
\* of the index failed, the stages it wrote (a stage written several times
\* in a row once), its first progress write, the ids of the posts handed to
\* process_post, the ids of each upsert call, the files it downloaded and
\* the post ids the index held when it began.
IdleRun ==
    [pc |-> "idle", most_recent_only |-> FALSE, num_posts |-> None,
     files |-> <<>>, i |-> 0, posts |-> <<>>, existing_post_ids |-> {},
     all_chunks |-> <<>>, j |-> 0, k |-> 0, batch |-> <<>>,
     result |-> NoResult,
     raised |-> None, scan_failed |-> FALSE, stages |-> <<>>,
     first_write |-> InitialProgress, processed |-> <<>>, upserts |-> <<>>,
     downloaded |-> <<>>, indexed_before |-> {}]

\* The record of a run after it wrote pr.
Wrote(r, pr) ==
    [r EXCEPT
       !.stages = IF @ # <<>> /\ @[Len(@)] = pr.stage THEN @ ELSE Append(@, pr.stage),
       !.first_write = IF r.stages = <<>> THEN pr ELSE @]

\* The post ids the chunks of the index carry.
PostIdsOf(coll) == {coll[id].metadata.post_id.str : id \in DOMAIN coll}

InitPipe ==
    /\ listing \in Listings
    /\ collection = EmptyCollection
    /\ progress = InitialProgress
    /\ run = [p \in {1} |-> IdleRun]
    /\ last_run = NoRun
    /\ observed = InitialProgress

\* The variables of the chunker's own specification, at rest.
ChunkIdle ==
    /\ text = <<>>
    /\ chunk_size = text_processor.chunk_size
    /\ chunk_overlap = text_processor.chunk_overlap
    /\ ct_pc = "idle"
    /\ ct_out = NoOutput

\* The variables of the post processor's own specification, at rest.
NoPost == [id |-> <<>>, name |-> <<>>, content |-> Content(ShaEmpty), url |-> <<>>]

PostIdle ==
    /\ pp_post = NoPost
    /\ pp_pc = "idle"
    /\ pp_out = [raised |-> None, chunks |-> <<>>]

\* The variables of the pipeline, at rest.
PipeIdle ==
    /\ listing = <<>>
    /\ collection = EmptyCollection
    /\ progress = InitialProgress
    /\ run = [p \in {1} |-> IdleRun]
    /\ last_run = NoRun
    /\ observed = InitialProgress

\* update_content returns: its except clause caught e (progress as pr).
RaiseStaleProgress(p, r, e, pr) ==
    /\ run' = [run EXCEPT ![p] =
                 [r EXCEPT !.pc = "done", !.raised = Some(e),
                           !.result = ErrorResult(e, InitialProgress)]]
    /\ last_run' = [status |-> "error", files |-> r.files]

Raise(p, r, e, pr) ==
    /\ run' = [run EXCEPT ![p] =
                 [r EXCEPT !.pc = "done", !.raised = Some(e),
                           !.result = ErrorResult(e, pr)]]
    /\ last_run' = [status |-> "error", files |-> r.files]

\* update_content returns its result of a run without exception.
Return(p, r, chunk_count, pr) ==
    /\ run' = [run EXCEPT ![p] =
                 [r EXCEPT !.pc = "done",
                           !.result = SuccessResult(r.posts, chunk_count, pr)]]
    /\ last_run' = [status |-> "success", files |-> r.files]

----------------------------------------------------------------------------
(* ContentIngester.update_content, step by step.  A step ends at a write   *)
(* of the progress or at a call to the content source or to the index.     *)

MaxNumPosts == 2

NumPostsArgs == {None} \cup {Some(n) : n \in 0..MaxNumPosts}

\* update_content is called: progress reset, the listing requested.
Start(p, most_recent_only, num_posts) ==
    /\ run[p].pc \in {"idle", "done"}
    /\ progress' = ProgressStarting
    /\ run' = [run EXCEPT ![p] =
                 Wrote([IdleRun EXCEPT
                          !.pc = "listing",
                          !.most_recent_only = most_recent_only,
                          !.num_posts = num_posts,
                          !.indexed_before = PostIdsOf(collection)],
                       ProgressStarting)]
    /\ UNCHANGED <<chunkVars, postVars, observed, listing, collection, last_run>>

\* The listing request fails: raise_for_status raises.
ListingFails(p) ==
    /\ run[p].pc = "listing"
    /\ Raise(p, run[p], ListingError, progress)
    /\ UNCHANGED <<chunkVars, postVars, observed, listing, collection, progress>>

\* The listing arrives: filter, sort, truncate, and the first progress of
\* the download.  Logging files[0] of an empty selection raises IndexError.
ListingOk(p) ==
    LET r == run[p]
        files == SelectFiles(SortedPosts(listing), r.most_recent_only, r.num_posts)
        pr == ProgressDownloadingStart(Len(files))
    IN /\ r.pc = "listing"
       /\ IF r.most_recent_only /\ files = <<>>
          THEN /\ Raise(p, [r EXCEPT !.files = files], IndexError, progress)
               /\ UNCHANGED progress
          ELSE /\ progress' = pr
               /\ run' = [run EXCEPT ![p] =
                            Wrote([r EXCEPT !.pc = "download_loop",
                                            !.files = files, !.i = 0,
                                            !.posts = <<>>], pr)]
               /\ UNCHANGED last_run
       /\ UNCHANGED <<chunkVars, postVars, observed, listing, collection>>

\* The download loop takes the next file and requests its content.
DownloadNext(p) ==
    LET r == run[p]
        pr == ProgressDownloading(r.i + 1, Len(r.files), r.files[r.i + 1].name)
    IN /\ r.pc = "download_loop"
       /\ r.i < Len(r.files)
       /\ progress' = pr
       /\ run' = [run EXCEPT ![p] =
                    Wrote([r EXCEPT !.pc = "downloading", !.i = r.i + 1], pr)]
       /\ UNCHANGED <<chunkVars, postVars, observed, listing, collection, last_run>>

\* The content of the file arrives.
DownloadOk(p) ==
    LET r == run[p]
        file == r.files[r.i]
        post == [id |-> file.sha, name |-> file.name,
                 content |-> Content(file.sha), url |-> file.html_url]
    IN /\ r.pc = "downloading"
       /\ run' = [run EXCEPT ![p] =
                    [r EXCEPT !.pc = "download_loop",
                              !.posts = Append(@, post),
                              !.downloaded = Append(@, file.sha)]]
       /\ UNCHANGED <<chunkVars, postVars, observed, listing, collection, progress, last_run>>

\* The download fails: raise_for_status raises.
DownloadFailsSkipsFile(p) ==
    /\ run[p].pc = "downloading"
    /\ run' = [run EXCEPT ![p].pc = "download_loop"]
    /\ UNCHANGED <<chunkVars, postVars, observed, listing, collection, progress, last_run>>

DownloadFails(p) ==
    /\ run[p].pc = "downloading"
    /\ Raise(p, run[p], DownloadError, progress)
    /\ UNCHANGED <<chunkVars, postVars, observed, listing, collection, progress>>

\* fetch_markdown_content returns; process_and_store_content begins.
DownloadsDone(p) ==
    LET r == run[p] IN
    /\ r.pc = "download_loop"
    /\ r.i = Len(r.files)
    /\ run' = [run EXCEPT ![p] = [r EXCEPT !.pc = "scan", !.all_chunks = <<>>]]
    /\ UNCHANGED <<chunkVars, postVars, observed, listing, collection, progress, last_run>>

\* _get_existing_post_ids reads the index.
ScanOk(p) ==
    LET r == run[p]
        pr == ProgressProcessingStart(Len(r.posts))
    IN /\ r.pc = "scan"
       /\ progress' = pr
       /\ run' = [run EXCEPT ![p] =
                    Wrote([r EXCEPT !.pc = "process_loop", !.j = 0,
                                    !.existing_post_ids = ExistingPostIds(collection)],
                          pr)]
       /\ UNCHANGED <<chunkVars, postVars, observed, listing, collection, last_run>>

\* count() or get() raises: _get_existing_post_ids returns the empty set.
ScanFailsAborts(p) ==
    /\ run[p].pc = "scan"
    /\ Raise(p, [run[p] EXCEPT !.scan_failed = TRUE], UpsertError, progress)
    /\ UNCHANGED <<chunkVars, postVars, observed, listing, collection, progress>>

ScanFails(p) ==
    LET r == run[p]
        pr == ProgressProcessingStart(Len(r.posts))
    IN /\ r.pc = "scan"
       /\ progress' = pr
       /\ run' = [run EXCEPT ![p] =
                    Wrote([r EXCEPT !.pc = "process_loop", !.j = 0,
                                    !.existing_post_ids = {},
                                    !.scan_failed = TRUE],
                          pr)]
       /\ UNCHANGED <<chunkVars, postVars, observed, listing, collection, last_run>>

\* The processing loop meets a post whose id the scan found.
SkipPost(p) ==
    LET r == run[p]
        post == r.posts[r.j + 1]
        pr == ProgressSkipping(r.j + 1, Len(r.posts), post.name)
    IN /\ r.pc = "process_loop"
       /\ r.j < Len(r.posts)
       /\ AlreadyProcessed(post, r.existing_post_ids)
       /\ progress' = pr
       /\ run' = [run EXCEPT ![p] = Wrote([r EXCEPT !.j = r.j + 1], pr)]
       /\ UNCHANGED <<chunkVars, postVars, observed, listing, collection, last_run>>

\* The processing loop hands a new post to process_post.
ProcessNewPost(p) ==
    LET r == run[p]
        post == r.posts[r.j + 1]
        pr == ProgressProcessing(r.j + 1, Len(r.posts), post.name)
        out == ProcessPost(post)
        called == Wrote([r EXCEPT !.j = r.j + 1,
                                  !.processed = Append(@, post.id)], pr)
    IN /\ r.pc = "process_loop"
       /\ r.j < Len(r.posts)
       /\ ~AlreadyProcessed(post, r.existing_post_ids)
       /\ progress' = pr
       /\ IF out.raised # None
          THEN Raise(p, called, out.raised[1], pr)
          ELSE /\ run' = [run EXCEPT ![p] =
                            [called EXCEPT
                               !.all_chunks = @ \o TagChunks(out.chunks, post)]]
               /\ UNCHANGED last_run
       /\ UNCHANGED <<chunkVars, postVars, observed, listing, collection>>

\* Every post was looked at and there are chunks to store.
StartStoring(p) ==
    LET r == run[p]
        pr == ProgressStoringStart(Len(r.all_chunks))
    IN /\ r.pc = "process_loop"
       /\ r.j = Len(r.posts)
       /\ r.all_chunks # <<>>
       /\ progress' = pr
       /\ run' = [run EXCEPT ![p] =
                    Wrote([r EXCEPT !.pc = "store_loop", !.k = 0], pr)]
       /\ UNCHANGED <<chunkVars, postVars, observed, listing, collection, last_run>>

\* Every post was looked at and there is nothing to store.
NothingToStore(p) ==
    LET r == run[p] IN
    /\ r.pc = "process_loop"
    /\ r.j = Len(r.posts)
    /\ r.all_chunks = <<>>
    /\ progress' = ProgressNothingNew
    /\ Return(p, Wrote(r, ProgressNothingNew), Len(r.all_chunks), ProgressNothingNew)
    /\ UNCHANGED <<chunkVars, postVars, observed, listing, collection>>

\* The storing loop takes the next batch and calls upsert.
StoreNextBatch(p) ==
    LET r == run[p]
        batch == BatchAt(r.all_chunks, r.k)
        pr == ProgressStoringBatch(r.k, Len(batch), Len(r.all_chunks))
    IN /\ r.pc = "store_loop"
       /\ r.k < Len(r.all_chunks)
       /\ progress' = pr
       /\ run' = [run EXCEPT ![p] =
                    Wrote([r EXCEPT !.pc = "upserting", !.batch = batch], pr)]
       /\ UNCHANGED <<chunkVars, postVars, observed, listing, collection, last_run>>

\* upsert returns.
UpsertOk(p) ==
    LET r == run[p] IN
    /\ r.pc = "upserting"
    /\ collection' = Upsert(collection, r.batch)
    /\ run' = [run EXCEPT ![p] =
                 [r EXCEPT !.pc = "store_loop", !.k = r.k + batch_size,
                           !.batch = <<>>,
                           !.upserts = Append(@, [n \in 1..Len(r.batch) |->
                                                    r.batch[n].id])]]
    /\ UNCHANGED <<chunkVars, postVars, observed, listing, progress, last_run>>

\* upsert raises; the index is as it was before the call.
UpsertFails(p) ==
    /\ run[p].pc = "upserting"
    /\ Raise(p, run[p], UpsertError, progress)
    /\ UNCHANGED <<chunkVars, postVars, observed, listing, collection, progress>>

\* The storing loop is over.
FinishStoring(p) ==
    LET r == run[p]
        pr == ProgressComplete(Len(r.all_chunks))
    IN /\ r.pc = "store_loop"
       /\ r.k >= Len(r.all_chunks)
       /\ progress' = pr
       /\ Return(p, Wrote(r, pr), Len(r.all_chunks), pr)
       /\ UNCHANGED <<chunkVars, postVars, observed, listing, collection>>

Next ==
    \/ \E p \in DOMAIN run, most_recent_only \in BOOLEAN, num_posts \in NumPostsArgs :
          Start(p, most_recent_only, num_posts)
    \/ \E p \in DOMAIN run : ListingFails(p)
    \/ \E p \in DOMAIN run : ListingOk(p)
    \/ \E p \in DOMAIN run : DownloadNext(p)
    \/ \E p \in DOMAIN run : DownloadOk(p)
    \/ \E p \in DOMAIN run : DownloadFails(p)
    \/ \E p \in DOMAIN run : DownloadsDone(p)
    \/ \E p \in DOMAIN run : ScanOk(p)
    \/ \E p \in DOMAIN run : ScanFails(p)
    \/ \E p \in DOMAIN run : SkipPost(p)
    \/ \E p \in DOMAIN run : ProcessNewPost(p)
    \/ \E p \in DOMAIN run : StartStoring(p)
    \/ \E p \in DOMAIN run : NothingToStore(p)
    \/ \E p \in DOMAIN run : StoreNextBatch(p)
    \/ \E p \in DOMAIN run : UpsertOk(p)
    \/ \E p \in DOMAIN run : UpsertFails(p)
    \/ \E p \in DOMAIN run : FinishStoring(p)

Init == ChunkIdle /\ PostIdle /\ InitPipe

Spec == Init /\ [][Next]_vars

----------------------------------------------------------------------------
(* The chunker on its own: every text, chunk size and overlap within the   *)
(* bounds, chunked once.                                                   *)

\* A body of three sentences, chunked with chunk_size 20 and chunk_overlap 5.
ThreeSentences ==
    [text |->
         <<"S", "e", "n", "t", "e", "n", "c", "e", " ", "o", "n", "e", ".",
           " ", "S", "e", "n", "t", "e", "n", "c", "e", " ", "t", "w", "o",
           ".", " ", "S", "e", "n", "t", "e", "n", "c", "e", " ", "t", "h",
           "r", "e", "e", ".">>,
     chunk_size |-> 20,
     chunk_overlap |-> 5]

InitChunk ==
    /\ PipeIdle
    /\ PostIdle
    /\ \/ /\ text \in Texts
          /\ chunk_size \in 1..MaxChunkSize
          /\ chunk_overlap \in 0..MaxOverlap
       \/ /\ text = ThreeSentences.text
          /\ chunk_size = ThreeSentences.chunk_size
          /\ chunk_overlap = ThreeSentences.chunk_overlap
    /\ ct_pc = "call"
    /\ ct_out = NoOutput

CallChunkText ==
    /\ ct_pc = "call"
    /\ ct_out' = ChunkText(text, chunk_size, chunk_overlap)
    /\ ct_pc' = "done"
    /\ UNCHANGED <<text, chunk_size, chunk_overlap>>
    /\ UNCHANGED <<postVars, pipeVars>>

NextChunk == CallChunkText

SpecChunk == InitChunk /\ [][NextChunk]_vars

----------------------------------------------------------------------------
(* The post processor on its own: process_post of the ingester's           *)
(* TextProcessor, called once on a post whose body is any text within the  *)
(* bounds, without a metadata block, with one that parses or with one that *)
(* does not.                                                               *)

\* Parsed metadata blocks: plain values, a list, and keys that are also
\* keys process_post sets itself.
FieldSets ==
    {[title |-> PyStr(<<"A">>), tags |-> PyList(<<PyStr(<<"a">>), PyInt(1)>>)],
     [n |-> PyInt(3)],
     [url |-> PyStr(<<"u">>), chunk_index |-> PyInt(7), post_name |-> PyStr(<<"p">>)]}

Contents ==
    {[block |-> "none", fields |-> NoFields, body |-> t] : t \in Texts}
      \cup {[block |-> "ok", fields |-> f, body |-> t] : f \in FieldSets, t \in Texts}
      \cup {Content(ShaBad), Content(ShaEmpty)}

Posts ==
    {[id |-> ShaA, name |-> Name(<<"1", "3">>, "a"), content |-> c, url |-> <<"h", "1">>] :
        c \in Contents}

InitPost ==
    /\ PipeIdle
    /\ ChunkIdle
    /\ pp_post \in Posts
    /\ pp_pc = "call"
    /\ pp_out = [raised |-> None, chunks |-> <<>>]

CallProcessPost ==
    /\ pp_pc = "call"
    /\ pp_out' = ProcessPost(pp_post)
    /\ pp_pc' = "done"
    /\ UNCHANGED <<pp_post, chunkVars, pipeVars>>

NextPost == CallProcessPost

SpecPost == InitPost /\ [][NextPost]_vars

----------------------------------------------------------------------------
(* C1: every chunk chunk_text returns is at most chunk_size characters     *)
(* long, except a chunk that is one single whitespace-free token longer    *)
(* than chunk_size.                                                        *)
C1_ChunkWithinSize ==
    ct_pc = "done" =>
        \A i \in 1..Len(ct_out.chunks) :
            \/ Len(ct_out.chunks[i]) <= chunk_size
            \/ ~HasWhitespace(ct_out.chunks[i])

(* C2: the overlap window a chunk was started with is at most              *)
(* chunk_overlap characters long, and it is the tail of the chunk before   *)
(* it and the head of the chunk itself.                                    *)
IsPrefix(s, t) == Len(s) <= Len(t) /\ SubSeq(t, 1, Len(s)) = s
IsSuffix(s, t) == Len(s) <= Len(t) /\ SubSeq(t, Len(t) - Len(s) + 1, Len(t)) = s

C2_OverlapBounded ==
    ct_pc = "done" =>
        \A i \in 1..Len(ct_out.chunks) :
            LET seed == ct_out.seeds[i] IN
            /\ Len(seed) <= chunk_overlap
            /\ seed # <<>> =>
                 /\ i > 1
                 /\ IsSuffix(seed, ct_out.chunks[i - 1])
                 /\ IsPrefix(seed, ct_out.chunks[i])

C2_Witness ==
    /\ ct_pc = "done"
    /\ \E i \in 1..Len(ct_out.chunks) :
          /\ ct_out.seeds[i] # <<>>
          /\ Len(ct_out.seeds[i]) = chunk_overlap - 1

----------------------------------------------------------------------------
(* Update runs, one after another.                                         *)

Range(seq) == {seq[n] : n \in 1..Len(seq)}
Last(seq) == seq[Len(seq)]
NoDuplicates(seq) == \A m, n \in 1..Len(seq) : seq[m] = seq[n] => m = n

\* The ids of all upsert calls of a run, in order.
RECURSIVE Flatten(_)
Flatten(seqs) == IF seqs = <<>> THEN <<>> ELSE Head(seqs) \o Flatten(Tail(seqs))

\* The run is past the listing: its files are selected.
Selected(r) ==
    r.pc \in {"download_loop", "downloading", "scan", "process_loop",
              "store_loop", "upserting"}

\* The run makes no upsert call: none returned, none is under way.
NoUpsertCall(r) == r.upserts = <<>> /\ r.pc # "upserting"

FetchComplete(r) ==
    \/ r.pc \in {"scan", "process_loop", "store_loop", "upserting"}
    \/ r.pc = "done" /\ r.processed # <<>>
    \/ r.pc = "done" /\ r.raised = None

\* The documents the chunks the run accumulated or handed to upsert belong to.
StoredPostIds(r) ==
    {r.all_chunks[n].metadata.post_id.str : n \in 1..Len(r.all_chunks)}
      \cup {r.batch[n].metadata.post_id.str : n \in 1..Len(r.batch)}

\* Every id the run upserted is the id of a chunk it accumulated.
UpsertsFromAllChunks(r) ==
    Range(Flatten(r.upserts)) \subseteq
        {r.all_chunks[n].id : n \in 1..Len(r.all_chunks)}

C5_OncePerDocument ==
    \A p \in DOMAIN run :
        /\ NoDuplicates(run[p].processed)
        /\ NoDuplicates(Flatten(run[p].upserts))
        /\ NoDuplicates([n \in 1..Len(run[p].batch) |-> run[p].batch[n].id])


----------------------------------------------------------------------------
(* The progress of a run and its result.                                   *)

\* The place of a stage in starting, downloading, processing, storing, complete.
StageRank(stage) ==
    CASE stage = "starting" -> 1
      [] stage = "downloading" -> 2
      [] stage = "processing" -> 3
      [] stage = "storing" -> 4
      [] stage = "complete" -> 5
      [] OTHER -> 0

(* C6: the first progress write of a run is stage starting with current 0  *)
(* and total 0, whatever the run before left, and the stages written after *)
(* it only move forward in the order starting, downloading, processing,    *)
(* storing, complete: no stage is written again after a later one.         *)
C6_StagesMoveForward ==
    \A p \in DOMAIN run :
        LET r == run[p] IN
        r.pc # "idle" =>
            /\ r.first_write.stage = "starting"
            /\ r.first_write.current = 0
            /\ r.first_write.total = 0
            /\ r.stages # <<>> /\ progress.stage = Last(r.stages)
            /\ \A n \in 1..Len(r.stages) : StageRank(r.stages[n]) > 0
            /\ \A m, n \in 1..Len(r.stages) :
                   m < n => StageRank(r.stages[m]) < StageRank(r.stages[n])

C6_Witness ==
    \E p \in DOMAIN run :
        /\ run[p].pc = "done"
        /\ run[p].indexed_before # {}
        /\ run[p].processed # <<>>
        /\ \E n \in 1..Len(run[p].files) :
              run[p].files[n].sha \in run[p].indexed_before
        /\ run[p].stages =
             <<"starting", "downloading", "processing", "storing", "complete">>

\* The text of the exception is part of the message.
Carries(message, e) == e \in Range(message.args)

(* C7, as stated: when an exception ends a run the ProgressState is at     *)
(* stage error and its message carries the message of the exception.       *)
C7_ErrorStageReached ==
    \A p \in DOMAIN run :
        (run[p].pc = "done" /\ run[p].raised # None)
        => /\ progress.stage = "error"
           /\ Carries(progress.message, run[p].raised[1])

(* C7, amended: when an exception ends a run the returned result has       *)
(* status error and a message that carries the message of the exception,   *)
(* while the ProgressState stays as the last write before the exception    *)
(* left it, at one of the stages starting, downloading, processing and     *)
(* storing; the result holds that ProgressState.                           *)
C7_ErrorLeavesLastStage ==
    \A p \in DOMAIN run :
        LET r == run[p] IN
        (r.pc = "done" /\ r.raised # None)
        => /\ r.result.status = "error"
           /\ Carries(r.result.message, r.raised[1])
           /\ progress.stage = Last(r.stages)
           /\ progress.stage \in {"starting", "downloading", "processing", "storing"}
           /\ ~Carries(progress.message, r.raised[1])
           /\ r.result.progress = progress

C7_Witness ==
    \E p \in DOMAIN run :
        /\ run[p].pc = "done"
        /\ run[p].raised = Some(UpsertError)
        /\ run[p].upserts # <<>>
        /\ progress.stage = "storing"

(* C8, as stated: for every failure of the fetcher, the post processor or  *)
(* the index the run returns a mapping with status, message and progress   *)
(* whose status is error and whose message contains the exception's text.  *)
C8_EveryFailureIsError ==
    \A p \in DOMAIN run :
        LET r == run[p] IN
        (r.pc = "done" /\ (r.raised # None \/ r.scan_failed))
        => /\ DOMAIN r.result = {"status", "message", "progress"}
           /\ r.result.status = "error"
           /\ r.raised # None
           /\ Carries(r.result.message, r.raised[1])

(* C8, amended: for every failure of the listing, of a download, of        *)
(* process_post or of an upsert the run returns a mapping with status,     *)
(* message and progress whose status is error and whose message contains   *)
(* the exception's text; a failure of the scan of the existing ids raises  *)
(* nothing in the run, which returns status success unless a later step    *)
(* fails.                                                                  *)
C8_RaisedFailureIsError ==
    \A p \in DOMAIN run :
        LET r == run[p] IN
        r.pc = "done" =>
            /\ DOMAIN r.result = {"status", "message", "progress"}
            /\ r.raised # None =>
                 /\ r.result.status = "error"
                 /\ Carries(r.result.message, r.raised[1])
                 /\ r.result.message.text = "Error during content update: {}"
            /\ r.raised = None => r.result.status = "success"

C8_Witness ==
    \E p \in DOMAIN run :
        /\ run[p].pc = "done"
        /\ run[p].raised = Some(YamlError)
        /\ run[p].result.status = "error"


\* The run ended without new chunks: its listing arrived and held no
\* candidate, or every document it fetched was in the index when it began.
EndedWithoutNewChunks(r) ==
    /\ r.pc = "done"
    /\ r.all_chunks = <<>>
    /\ \/ r.files = <<>> /\ r.raised # Some(ListingError)
       \/ /\ r.files # <<>>
          /\ Len(r.posts) = Len(r.files)
          /\ r.raised \notin {Some(ListingError), Some(DownloadError)}
          /\ \A n \in 1..Len(r.posts) : r.posts[n].id \in r.indexed_before

(* C9, as stated: a run that produces no new chunks, every fetched         *)
(* document being indexed already or the candidate list being empty,       *)
(* calls no upsert and ends with status success and the ProgressState at   *)
(* stage complete, current 0, total 0.                                     *)
C9_NothingNewCompletes ==
    \A p \in DOMAIN run :
        EndedWithoutNewChunks(run[p])
        => /\ NoUpsertCall(run[p])
           /\ run[p].result.status = "success"
           /\ progress.stage = "complete"
           /\ progress.current = 0
           /\ progress.total = 0

\* ceil(n / d)
CeilDiv(n, d) == (n + d - 1) \div d

(* C10: a run that stores n > 0 accumulated chunks without an upsert       *)
(* failure makes exactly ceil(n/100) upsert calls of at most 100 chunks    *)
(* each, and the batches one after another are the accumulated chunks in   *)
(* their order, so that every accumulated chunk is upserted exactly once.  *)
C10_BatchesCoverAllChunks ==
    \A p \in DOMAIN run :
        LET r == run[p]
            n == Len(r.all_chunks)
        IN (r.pc = "done" /\ r.raised = None /\ n > 0)
           => /\ Len(r.upserts) = CeilDiv(n, batch_size)
              /\ \A b \in 1..Len(r.upserts) :
                    Len(r.upserts[b]) >= 1 /\ Len(r.upserts[b]) <= batch_size
              /\ Flatten(r.upserts) = [m \in 1..n |-> r.all_chunks[m].id]

C10_Witness ==
    \E p \in DOMAIN run :
        /\ run[p].pc = "done"
        /\ run[p].raised = None
        /\ Len(run[p].all_chunks) > batch_size
        /\ Len(run[p].upserts) = 2
        /\ Len(run[p].upserts[1]) = batch_size

\* A run that stores exactly batch_size chunks, in one call.
C10_WitnessFullBatch ==
    \E p \in DOMAIN run :
        /\ run[p].pc = "done"
        /\ run[p].raised = None
        /\ Len(run[p].all_chunks) = batch_size
        /\ Len(run[p].upserts) = 1


----------------------------------------------------------------------------
(* Failures of the index, of the documents and of the content source.      *)

\* What the index stores of the chunks of the run that carry id.
StoredAs(r, id) ==
    {[document |-> r.all_chunks[m].content,
      metadata |-> UpsertMetadata(r.all_chunks[m])] :
        m \in {n \in 1..Len(r.all_chunks) : r.all_chunks[n].id = id}}

(* C11: when the upsert of a batch fails, no later batch is attempted, the *)
(* chunks of the batches before it remain stored in the index, and the run *)
(* returns status error.                                                   *)
C11_UpsertFailureAborts ==
    \A p \in DOMAIN run :
        LET r == run[p] IN
        (r.pc = "done" /\ r.raised = Some(UpsertError))
        => /\ r.result.status = "error"
           /\ r.k < Len(r.all_chunks)
           /\ r.batch = BatchAt(r.all_chunks, r.k)
           /\ Len(r.upserts) * batch_size = r.k
           /\ Flatten(r.upserts) = [m \in 1..r.k |-> r.all_chunks[m].id]
           /\ \A id \in Range(Flatten(r.upserts)) :
                 /\ id \in DOMAIN collection
                 /\ collection[id] \in StoredAs(r, id)

C11_Witness ==
    \E p \in DOMAIN run :
        LET r == run[p] IN
        /\ r.pc = "done" /\ r.raised = Some(UpsertError)
        /\ r.k = batch_size /\ Len(r.upserts) = 1
        /\ Len(r.all_chunks) > batch_size
        /\ r.indexed_before = {}
        /\ r.all_chunks[1].id \in DOMAIN collection
        /\ r.all_chunks[batch_size + 1].id \notin DOMAIN collection

\* The metadata block of the post cannot be parsed.
Malformed(post) == post.content.block = "invalid"

(* C12, as stated: a document whose metadata block cannot be parsed yields *)
(* no chunks and process_post does not raise: the run goes on through the  *)
(* remaining documents and, unless an upsert fails, ends with status       *)
(* success.                                                                *)
C12_MalformedDegrades ==
    \A p \in DOMAIN run :
        LET r == run[p] IN
        (/\ r.pc = "done"
         /\ r.raised # Some(UpsertError)
         /\ \E n \in 1..r.j : /\ Malformed(r.posts[n])
                              /\ r.posts[n].id \in Range(r.processed))
        => /\ r.result.status = "success"
           /\ r.j = Len(r.posts)

\* The run never entered process_and_store_content: nothing was processed,
\* accumulated or upserted, and the index is as the run found it.
NothingProcessed(r) ==
    /\ r.processed = <<>> /\ r.all_chunks = <<>> /\ NoUpsertCall(r)
    /\ r.j = 0 /\ ~r.scan_failed
    /\ Range(r.stages) \subseteq {"starting", "downloading"}
    /\ PostIdsOf(collection) = r.indexed_before

(* C13: a listing request that fails ends the fetch before any download is *)
(* issued, and a download that fails ends the whole fetch: the run gets no *)
(* documents, not even the ones downloaded before, processes nothing and   *)
(* upserts nothing, and returns status error.                              *)
C13_FetchFailureIsFatal ==
    \A p \in DOMAIN run :
        LET r == run[p] IN
        /\ (r.pc = "done" /\ r.raised = Some(ListingError))
           => /\ r.i = 0 /\ r.downloaded = <<>> /\ r.files = <<>>
              /\ NothingProcessed(r)
              /\ r.result.status = "error"
        /\ (r.pc # "downloading" /\ Len(r.downloaded) < r.i)
           => /\ r.pc = "done" /\ r.raised = Some(DownloadError)
              /\ Len(r.downloaded) = r.i - 1
              /\ NothingProcessed(r)
              /\ r.result.status = "error"

C13_Witness ==
    \E p \in DOMAIN run :
        LET r == run[p] IN
        /\ r.pc = "done" /\ r.raised = Some(DownloadError)
        /\ Len(r.downloaded) = 2 /\ r.i = 3
        /\ r.indexed_before # {}

\* A run ended by the listing request.
C13_WitnessListing ==
    \E p \in DOMAIN run :
        /\ run[p].pc = "done" /\ run[p].raised = Some(ListingError)
        /\ run[p].indexed_before # {}

----------------------------------------------------------------------------
(* The records process_post returns.                                       *)

\* The pieces chunk_text makes of the body of the post.
Pieces(post) ==
    ChunkText(post.content.body, text_processor.chunk_size,
              text_processor.chunk_overlap).chunks

(* C14: for a document whose body chunks into n pieces process_post        *)
(* returns n records in chunk order; record i, counted from 0, has the id  *)
(* "<document id>_chunk_<i>", the content of piece i, chunk_index i and    *)
(* total_chunks n, so that the ids differ within the document and          *)
(* chunk_index < total_chunks; every record carries the post name, the url *)
(* and every key of the metadata block.                                    *)
C14_RecordsFollowChunks ==
    (pp_pc = "done" /\ pp_out.raised = None) =>
        LET pieces == Pieces(pp_post)
            n == Len(pieces)
            records == pp_out.chunks
        IN /\ Len(records) = n
           /\ \A i \in 0..(n - 1) :
                 LET record == records[i + 1] IN
                 /\ record.id = pp_post.id \o <<"_", "c", "h", "u", "n", "k", "_">>
                                   \o Decimal(i)
                 /\ record.content = pieces[i + 1]
                 /\ record.metadata.chunk_index = PyInt(i)
                 /\ record.metadata.total_chunks = PyInt(n)
                 /\ record.metadata.chunk_index.int < record.metadata.total_chunks.int
                 /\ record.metadata.post_name = PyStr(pp_post.name)
                 /\ record.metadata.url = PyStr(pp_post.url)
                 /\ DOMAIN pp_post.content.fields \subseteq DOMAIN record.metadata
           /\ NoDuplicates([i \in 1..n |-> records[i].id])

C14_Witness ==
    /\ pp_pc = "done"
    /\ Len(pp_out.chunks) = 3
    /\ "post_name" \in DOMAIN pp_post.content.fields
    /\ pp_out.chunks[3].metadata.chunk_index = PyInt(2)

(* C15, as stated: every metadata value of every record process_post       *)
(* returns is a string, chunk_index and total_chunks included.             *)
C15_AllValuesStrings ==
    pp_pc = "done" =>
        \A i \in 1..Len(pp_out.chunks) :
            \A key \in DOMAIN pp_out.chunks[i].metadata :
                IsStr(pp_out.chunks[i].metadata[key])

(* C15, amended: in every record process_post returns chunk_index and      *)
(* total_chunks are integers and every other metadata value, those of the  *)
(* metadata block, post_name and url, is a string.                         *)
C15_ValuesStringsButCounts ==
    pp_pc = "done" =>
        \A i \in 1..Len(pp_out.chunks) :
            LET metadata == pp_out.chunks[i].metadata IN
            /\ {"chunk_index", "total_chunks", "post_name", "url"}
                  \subseteq DOMAIN metadata
            /\ \A key \in DOMAIN metadata :
                  IF key \in {"chunk_index", "total_chunks"}
                  THEN IsInt(metadata[key]) /\ ~IsStr(metadata[key])
                  ELSE IsStr(metadata[key])

C15_Witness ==
    /\ pp_pc = "done"
    /\ Len(pp_out.chunks) >= 2
    /\ "tags" \in DOMAIN pp_post.content.fields
    /\ IsList(pp_post.content.fields["tags"])
    /\ pp_out.chunks[2].metadata.tags = PyStr(<<"a", ",", " ", "1">>)
    /\ pp_out.chunks[2].metadata.chunk_index = PyInt(1)

\* Every value of the mapping is a string and the keys the indexer sets are there.
AllStrings(metadata) ==
    /\ {"url", "post_name", "chunk_index", "total_chunks", "post_id"}
          \subseteq DOMAIN metadata
    /\ \A key \in DOMAIN metadata : IsStr(metadata[key])

(* C16: in every upsert call of the indexer every value of every metadata  *)
(* mapping is a string: those of the front-matter keys and those of url,   *)
(* post_name, chunk_index, total_chunks and post_id.  The index holds the  *)
(* mappings of the calls that returned; the batch is the call under way.   *)
C16_UpsertMetadataStrings ==
    /\ \A id \in DOMAIN collection : AllStrings(collection[id].metadata)
    /\ \A p \in DOMAIN run :
          run[p].pc = "upserting" =>
              \A n \in 1..Len(run[p].batch) :
                  /\ ~IsStr(run[p].batch[n].metadata.chunk_index)
                  /\ AllStrings(UpsertMetadata(run[p].batch[n]))

C16_Witness ==
    \E id \in DOMAIN collection :
        /\ "tags" \in DOMAIN collection[id].metadata
        /\ collection[id].metadata.chunk_index = PyStr(<<"1">>)
        /\ collection[id].metadata.total_chunks = PyStr(<<"2">>)
        /\ collection[id].metadata.post_id = PyStr(ShaA)

----------------------------------------------------------------------------
(* The fetcher on its own: update_content up to the return of              *)
(* fetch_markdown_content, over listings that hold the names the filter    *)
(* has to tell apart and five dated posts out of order.                    *)

NameWeekly ==
    <<"2", "0", "2", "5", "-", "0", "5", "-", "2", "6", "-", "w", "e", "e",
      "k", "l", "y", "-", "O", "F", "S", "-", "4", "8", ".", "m", "d">>

NameReadme ==
    <<"R", "E", "A", "D", "M", "E", ".", "m", "d">>

NameBadDate ==
    <<"2", "0", "2", "5", "-", "5", "-", "6", "-", "b", "a", "d", "-", "d",
      "a", "t", "e", ".", "m", "d">>

\* A name that ends with a newline after .md.
NameNewlineLast ==
    <<"2", "0", "2", "5", "-", "0", "5", "-", "2", "7", "-", "n", ".", "m",
      "d", "\n">>

\* A name with a newline inside.
NameNewlineInside ==
    <<"2", "0", "2", "5", "-", "0", "5", "-", "2", "8", "-", "a", "\n",
      "b", ".", "m", "d">>

ListingNames ==
    <<File(NameReadme, ShaOther, "0"),
      File(NameBadDate, ShaOther, "1"),
      File(NameWeekly, ShaOther, "2"),
      [File(Name(<<"1", "6">>, "d"), ShaOther, "3") EXCEPT !.type = "dir"],
      File(NameNewlineInside, ShaOther, "4"),
      File(NameNewlineLast, ShaOther, "5")>>

\* Five dated posts, two of them of the same date, and a file that is no post.
ListingFive ==
    <<File(Name(<<"1", "2">>, "a"), ShaOther, "1"),
      File(Name(<<"1", "5">>, "b"), ShaA, "2"),
      Readme,
      File(Name(<<"1", "2">>, "e"), ShaEmpty, "3"),
      File(Name(<<"1", "1">>, "d"), ShaOther, "4"),
      File(Name(<<"1", "4">>, "x"), ShaA, "5")>>

ListingSingle == <<Readme, File(Name(<<"1", "7">>, "a"), ShaA, "1")>>

FetchListings ==
    {ListingNames, ListingFive, ListingSingle, ListingNoPosts, ListingDuplicates}

InitFetch ==
    /\ ChunkIdle
    /\ PostIdle
    /\ listing \in FetchListings
    /\ collection = EmptyCollection
    /\ progress = InitialProgress
    /\ run = [p \in {1} |-> IdleRun]
    /\ last_run = NoRun
    /\ observed = InitialProgress

NextFetch ==
    \/ \E p \in DOMAIN run, most_recent_only \in BOOLEAN, num_posts \in NumPostsArgs :
          Start(p, most_recent_only, num_posts)
    \/ \E p \in DOMAIN run : ListingFails(p)
    \/ \E p \in DOMAIN run : ListingOk(p)
    \/ \E p \in DOMAIN run : DownloadNext(p)
    \/ \E p \in DOMAIN run : DownloadOk(p)
    \/ \E p \in DOMAIN run : DownloadFails(p)
    \/ \E p \in DOMAIN run : DownloadsDone(p)

SpecFetch == InitFetch /\ [][NextFetch]_vars

\* The name is 4 digits, '-', 2 digits, '-', 2 digits, '-', any text, '.md'.
HasPostForm(name) ==
    /\ Len(name) >= 14
    /\ \A i \in {1, 2, 3, 4, 6, 7, 9, 10} : name[i] \in Digits
    /\ \A i \in {5, 8, 11} : name[i] = "-"
    /\ SubSeq(name, Len(name) - 2, Len(name)) = <<".", "m", "d">>

(* C17, as stated: the filter accepts a name exactly when it is 4 digits,  *)
(* '-', 2 digits, '-', 2 digits, '-', any text, '.md'; it accepts          *)
(* "2025-05-26-weekly-OFS-48.md" and rejects "README.md" and               *)
(* "2025-5-6-bad-date.md"; the candidates of a fetch without a limit are   *)
(* the entries that are files of such a name.                              *)
C17_FilterAcceptsForm ==
    /\ IsPostFile(NameWeekly)
    /\ ~IsPostFile(NameReadme)
    /\ ~IsPostFile(NameBadDate)
    /\ \A p \in DOMAIN run :
          LET r == run[p] IN
          (Selected(r) /\ ~r.most_recent_only /\ r.num_posts = None)
          => \A n \in 1..Len(listing) :
                listing[n] \in Range(r.files)
                   <=> (listing[n].type = "file" /\ HasPostForm(listing[n].name))

DigitValue(c) == CHOOSE d \in 0..9 : DigitChars[d + 1] = c

\* The date a post name begins with, YYYY-MM-DD, as the number YYYYMMDD.
DateOf(name) ==
    LET v(i) == DigitValue(name[i]) IN
    ((((((v(1) * 10 + v(2)) * 10 + v(3)) * 10 + v(4)) * 10 + v(6)) * 10 + v(7))
        * 10 + v(9)) * 10 + v(10)

Min(m, n) == IF m < n THEN m ELSE n

\* The listing of the run arrived.
ListingArrived(r) ==
    \/ Selected(r)
    \/ r.pc = "done" /\ r.raised \in {Some(DownloadError), Some(IndexError)}

\* The number of files the fetcher is to return out of count matching files.
Limit(r, count) ==
    IF r.most_recent_only THEN Min(1, count)
    ELSE IF r.num_posts # None THEN Min(r.num_posts[1], count)
    ELSE count

(* C18, as stated: the fetcher returns the first k of the matching files   *)
(* sorted by the date of their names, latest first, and downloads them in  *)
(* that order; k is 1 when most_recent_only is set, whatever num_posts is, *)
(* min(N, number of matching files) when num_posts is N, and the number of *)
(* matching files otherwise.  Over five dated candidates most_recent_only  *)
(* returns the one of the latest date.                                     *)
C18_FetchSelectsMostRecent ==
    \A p \in DOMAIN run :
        LET r == run[p]
            candidates == FilterPosts(listing)
            k == Limit(r, Len(candidates))
        IN ListingArrived(r) =>
            /\ r.raised # Some(IndexError)
            /\ Len(r.files) = k
            /\ Range(r.files) \subseteq Range(candidates)
            /\ NoDuplicates(r.files)
            /\ \A m, n \in 1..k :
                  m < n => DateOf(r.files[m].name) >= DateOf(r.files[n].name)
            /\ \A n \in 1..Len(candidates) :
                  candidates[n] \notin Range(r.files) =>
                      \A m \in 1..k :
                          DateOf(r.files[m].name) >= DateOf(candidates[n].name)
            /\ Len(r.downloaded) <= k
            /\ \A n \in 1..Len(r.downloaded) : r.downloaded[n] = r.files[n].sha
            /\ r.pc = "scan" =>
                  /\ Len(r.posts) = k
                  /\ \A n \in 1..k : /\ r.posts[n].name = r.files[n].name
                                     /\ r.posts[n].id = r.files[n].sha

----------------------------------------------------------------------------
(* chunk_text on a body of three sentences and on empty texts.             *)

(* C19, as stated: the body "Sentence one. Sentence two. Sentence three."  *)
(* with chunk_size 20 and chunk_overlap 5 gives exactly 3 chunks of at     *)
(* most 20 characters each, and chunk 2 begins with words carried over     *)
(* from the tail of chunk 1.                                               *)
C19_ThreeChunksWithOverlap ==
    (/\ ct_pc = "done"
     /\ text = ThreeSentences.text
     /\ chunk_size = ThreeSentences.chunk_size
     /\ chunk_overlap = ThreeSentences.chunk_overlap)
    => /\ Len(ct_out.chunks) = 3
       /\ \A i \in 1..3 : Len(ct_out.chunks[i]) <= 20
       /\ \E n \in 1..Len(ct_out.chunks[2]) :
             /\ IsSuffix(SubSeq(ct_out.chunks[2], 1, n), ct_out.chunks[1])
             /\ IsPrefix(SubSeq(ct_out.chunks[2], 1, n), ct_out.chunks[2])

(* C20: chunk_text returns the empty sequence for an empty text and for a  *)
(* text of whitespace only, and raises nothing; process_post returns the   *)
(* empty sequence for a post whose content is empty or whitespace only and *)
(* for a post whose body after the metadata block is empty.                *)
C20_EmptyTextNoChunks ==
    (/\ pp_pc = "done"
     /\ ~Malformed(pp_post)
     /\ Strip(pp_post.content.body) = <<>>)
    => /\ pp_out.raised = None
       /\ pp_out.chunks = <<>>
       /\ ChunkText(pp_post.content.body, text_processor.chunk_size,
                    text_processor.chunk_overlap) = NoOutput

C20_Witness ==
    /\ pp_pc = "done"
    /\ pp_post.content.block = "ok"
    /\ pp_post.content.body = <<" ", " ">>
    /\ pp_out = [raised |-> None, chunks |-> <<>>]

\* A post of whitespace only, without a metadata block.
C20_WitnessBlank ==
    /\ pp_pc = "done"
    /\ pp_post.content = Content(ShaEmpty)
    /\ pp_out = [raised |-> None, chunks |-> <<>>]


----------------------------------------------------------------------------
(* C21: the document count in the result message of a run that returned    *)
(* status success is the number of documents the run handed to             *)
(* process_post, so a second run over an unchanged candidate set reports   *)
(* 0 documents.                                                            *)
C21_MessageCountsProcessed ==
    \A p \in DOMAIN run :
        (run[p].pc = "done" /\ run[p].result.status = "success")
        => run[p].result.message.args[1] = Decimal(Len(run[p].processed))


----------------------------------------------------------------------------
(* Concurrent requests.  The service has one ContentIngester and serves    *)
(* its requests on one event loop (app/api/rag.py).  A request runs until  *)
(* it awaits.  update_content awaits the listing, every download and the   *)
(* pause after every download; process_and_store_content is an ordinary    *)
(* function and awaits nothing, so from the return of the fetcher to the   *)
(* return of update_content no other request runs.                         *)

\* The two update requests.
Requests == {1, 2}

\* The call stands at an await, has not begun or has returned.  Leaving the
\* "async with" block of the fetcher may suspend too, which matters for a
\* fetch without downloads.
Suspended(r) ==
    \/ r.pc \in {"idle", "done", "listing", "downloading"}
    \/ r.pc = "download_loop" /\ (r.i > 0 \/ r.files = <<>>)

\* The event loop can run request p: no other request is between two awaits.
Scheduled(p) == \A q \in DOMAIN run \ {p} : Suspended(run[q])

\* GET /rag/progress: the handler returns ingester.get_progress().
GetProgress ==
    /\ \A q \in DOMAIN run : Suspended(run[q])
    /\ observed' = progress
    /\ UNCHANGED <<chunkVars, postVars>>
    /\ UNCHANGED <<listing, collection, progress, run, last_run>>

\* POST /rag/update: one call of update_content per request, num_posts left
\* at its default.
StartRequest(p, most_recent_only) ==
    /\ run[p].pc = "idle"
    /\ Start(p, most_recent_only, None)

InitConcurrent ==
    /\ ChunkIdle
    /\ PostIdle
    /\ listing \in Listings
    /\ collection = EmptyCollection
    /\ progress = InitialProgress
    /\ run = [p \in Requests |-> IdleRun]
    /\ last_run = NoRun
    /\ observed = InitialProgress

NextConcurrent ==
    \/ \E p \in DOMAIN run, most_recent_only \in BOOLEAN :
          Scheduled(p) /\ StartRequest(p, most_recent_only)
    \/ \E p \in DOMAIN run : Scheduled(p) /\ ListingFails(p)
    \/ \E p \in DOMAIN run : Scheduled(p) /\ ListingOk(p)
    \/ \E p \in DOMAIN run : Scheduled(p) /\ DownloadNext(p)
    \/ \E p \in DOMAIN run : Scheduled(p) /\ DownloadOk(p)
    \/ \E p \in DOMAIN run : Scheduled(p) /\ DownloadFails(p)
    \/ \E p \in DOMAIN run : Scheduled(p) /\ DownloadsDone(p)
    \/ \E p \in DOMAIN run : Scheduled(p) /\ ScanOk(p)
    \/ \E p \in DOMAIN run : Scheduled(p) /\ ScanFails(p)
    \/ \E p \in DOMAIN run : Scheduled(p) /\ SkipPost(p)
    \/ \E p \in DOMAIN run : Scheduled(p) /\ ProcessNewPost(p)
    \/ \E p \in DOMAIN run : Scheduled(p) /\ StartStoring(p)
    \/ \E p \in DOMAIN run : Scheduled(p) /\ NothingToStore(p)
    \/ \E p \in DOMAIN run : Scheduled(p) /\ StoreNextBatch(p)
    \/ \E p \in DOMAIN run : Scheduled(p) /\ UpsertOk(p)
    \/ \E p \in DOMAIN run : Scheduled(p) /\ UpsertFails(p)
    \/ \E p \in DOMAIN run : Scheduled(p) /\ FinishStoring(p)
    \/ GetProgress

SpecConcurrent == InitConcurrent /\ [][NextConcurrent]_vars


\* The run stands between two batch upserts, or between two documents of
\* the processing loop.
BetweenBatches(r) ==
    r.pc = "store_loop" /\ r.upserts # <<>> /\ r.k < Len(r.all_chunks)

BetweenDocuments(r) ==
    r.pc = "process_loop" /\ 0 < r.j /\ r.j < Len(r.posts)

(* C23: each batch upsert is a suspension point of the run: whenever a run *)
(* stands between two batch upserts a status query can be scheduled, and   *)
(* it observes stage storing; likewise between two documents of the        *)
(* processing loop, where it observes stage processing.                    *)
C23_QueryBetweenBatches ==
    \A p \in DOMAIN run :
        /\ BetweenBatches(run[p])
              => (ENABLED GetProgress) /\ progress.stage = "storing"
        /\ BetweenDocuments(run[p])
              => (ENABLED GetProgress) /\ progress.stage = "processing"


\* The posts a fetch of the files returns, and the index one run over them
\* leaves when it starts from an empty index: nothing when process_post
\* raises on one of the posts, since the run then ends before it stores.
PostsOf(files) ==
    [n \in 1..Len(files) |->
        [id |-> files[n].sha, name |-> files[n].name,
         content |-> Content(files[n].sha), url |-> files[n].html_url]]

SingleRunIndex(files) ==
    LET posts == PostsOf(files)
        outs == [n \in 1..Len(posts) |-> ProcessPost(posts[n])]
    IN IF \E n \in 1..Len(posts) : outs[n].raised # None
       THEN EmptyCollection
       ELSE Upsert(EmptyCollection,
                   Flatten([n \in 1..Len(posts) |->
                               TagChunks(outs[n].chunks, posts[n])]))

(* C22: two update requests over the same candidate files, interleaved in  *)
(* any way the event loop allows, leave the index as a single run leaves   *)
(* it.  While they run and after they ended, every chunk id of the index   *)
(* holds the content and metadata a single run stores under it; once both  *)
(* have returned status success no chunk id is missing.                    *)
C22_ConcurrentRunsSameIndex ==
    \A p, q \in DOMAIN run :
        (/\ p # q
         /\ run[p].pc = "done" /\ run[q].pc = "done"
         /\ run[p].files = run[q].files)
        => LET single == SingleRunIndex(run[p].files) IN
           /\ \A id \in DOMAIN collection :
                 id \in DOMAIN single /\ collection[id] = single[id]
           /\ (run[p].result.status = "success" /\ run[q].result.status = "success")
                 => collection = single

\* Both requests began before anything was stored, both returned success,
\* and both made upsert calls: the second did the work of the first again.
C22_Witness ==
    \E p, q \in DOMAIN run :
        /\ p # q
        /\ run[p].pc = "done" /\ run[q].pc = "done"
        /\ run[p].files = run[q].files
        /\ run[p].result.status = "success" /\ run[q].result.status = "success"
        /\ run[p].indexed_before = {} /\ run[q].indexed_before = {}
        /\ Len(run[p].upserts) = 2 /\ Len(run[q].upserts) = 2
        /\ collection = SingleRunIndex(run[p].files)


----------------------------------------------------------------------------
\* chunk_text dropped its final accumulator: the accumulator is not empty
\* and its counted length is over chunk_size.
FinalDropped ==
    ct_out.final # <<>> /\ ct_out.final_length > chunk_size

(* C24: the final accumulator of chunk_text is longer than chunk_size, and *)
(* so dropped, only when it was started with an overlap window; a text     *)
(* chunked without any overlap window has its final accumulator emitted.   *)
C24_FinalDroppedOnlyAfterSeed ==
    ct_pc = "done" => (FinalDropped => ct_out.final_seed # <<>>)


----------------------------------------------------------------------------
\* What the ProgressState holds at each position of a run.
ProgressInRange == 0 <= progress.current /\ progress.current <= progress.total

ProgressFollows(r) ==
    /\ r.pc \in {"download_loop", "downloading"}
          => /\ progress.stage = "downloading"
             /\ progress.total = Len(r.files)
             /\ progress.current = r.i
    /\ r.pc = "process_loop"
          => /\ progress.stage = "processing"
             /\ progress.total = Len(r.posts)
             /\ progress.current = r.j
             /\ Len(r.posts) = Len(r.files)
    /\ r.pc \in {"store_loop", "upserting"}
          => /\ progress.stage = "storing"
             /\ progress.total = Len(r.all_chunks)

\* A step of a run that stays in its stage does not lower current, and a
\* step of the processing loop, skip or not, raises it by one.
ProgressAdvances ==
    /\ progress'.stage = progress.stage
          => progress'.current >= progress.current
    /\ \A p \in DOMAIN run :
          (run[p].pc = "process_loop" /\ run'[p].j # run[p].j)
          => /\ progress'.stage = "processing"
             /\ progress'.current = progress.current + 1

(* C25: in every ProgressState of a run 0 <= current <= total; within one  *)
(* stage current never decreases; in downloading total is the number of    *)
(* candidate documents; in processing a skipped document advances current  *)
(* as a processed one does, and processing ends with current = total = the *)
(* number of fetched documents.                                            *)
C25_ProgressCounts ==
    /\ [](ProgressInRange /\ \A p \in DOMAIN run : ProgressFollows(run[p]))
    /\ [][ProgressAdvances]_vars

\* The processing loop has ended on three fetched documents, two of them
\* skipped and one processed.
C25_Witness ==
    \E p \in DOMAIN run :
        /\ run[p].pc = "process_loop"
        /\ run[p].j = 3 /\ Len(run[p].posts) = 3
        /\ Len(run[p].processed) = 1
        /\ progress.stage = "processing"
        /\ progress.current = 3 /\ progress.total = 3


----------------------------------------------------------------------------
(* C26: after a run that returned status success, every fetched document   *)
(* that yields n >= 1 chunks has its n chunk ids, index 0 to n - 1, in the *)
(* index, whatever runs came before.                                       *)
C26_SuccessMeansAllChunksStored ==
    \A p \in DOMAIN run :
        (run[p].pc = "done" /\ run[p].result.status = "success")
        => \A n \in 1..Len(run[p].posts) :
              LET post == run[p].posts[n]
                  out == ProcessPost(post)
              IN out.raised = None
                 => \A i \in 0..(Len(out.chunks) - 1) :
                       ChunkId(post.id, i) \in DOMAIN collection


----------------------------------------------------------------------------
\* Chunk i of the output without the overlap window it was started with.
Unseeded(i) ==
    LET chunk == ct_out.chunks[i]
        seed == ct_out.seeds[i]
    IN IF seed = <<>> THEN chunk
       ELSE SubSeq(chunk, Len(seed) + 2, Len(chunk))

\* The text chunk_text works on: whitespace collapsed, ends stripped.
Normalized == Strip(CollapseWhitespace(text))

(* C27: chunk_text loses no content: for a text that is not blank, every   *)
(* word of the whitespace-normalized text is in one of the returned chunks,*)
(* and the chunks without their overlap windows, joined in order, are the  *)
(* normalized text.                                                        *)
C27_NoContentLost ==
    (ct_pc = "done" /\ Strip(text) # <<>>)
    => /\ \A w \in Range(Words(Normalized)) :
             \E i \in 1..Len(ct_out.chunks) : w \in Range(Words(ct_out.chunks[i]))
       /\ Join([i \in 1..Len(ct_out.chunks) |-> Unseeded(i)]) = Normalized


----------------------------------------------------------------------------
\* The number of chunks whose upsert call has returned in the run.
StoredCount(r) == Len(Flatten(r.upserts))

(* C28: during the storing stage ProgressState.current is at most the      *)
(* number of chunks whose upsert has returned in this run, and the         *)
(* progress in the error result of a failed upsert does not count the      *)
(* chunks of the failed batch.                                             *)
C28_StoringCountsStored ==
    \A p \in DOMAIN run :
        /\ run[p].pc \in {"store_loop", "upserting"}
              => progress.current <= StoredCount(run[p])
        /\ (run[p].pc = "done" /\ run[p].raised = Some(UpsertError))
              => run[p].result.progress.current <= StoredCount(run[p])


----------------------------------------------------------------------------
(* C29: when no entry of the listing matches the post filename pattern,    *)
(* the fetcher returns the empty sequence and the run ends with status     *)
(* success and stage complete, whatever most_recent_only and num_posts     *)
(* are.  A run whose listing request failed is not concerned.              *)
C29_NoCandidatesSucceeds ==
    \A p \in DOMAIN run :
        (/\ run[p].pc = "done"
         /\ FilterPosts(listing) = <<>>
         /\ run[p].raised # Some(ListingError))
        => /\ run[p].posts = <<>>
           /\ run[p].raised = None
           /\ run[p].result.status = "success"
           /\ run[p].result.progress.stage = "complete"


----------------------------------------------------------------------------
\* The ids of the posts, and of the chunks, in a sequence of them.
IdsOf(seq) == [n \in 1..Len(seq) |-> seq[n].id]

(* C30: a failure while the existing document ids are read from the index  *)
(* does not abort the run: _get_existing_post_ids returns the empty set,   *)
(* no fetched document is skipped, every one is handed to process_post,    *)
(* and a run that then returns status success has upserted every chunk.    *)
C30_ScanFailureGoesOn ==
    \A p \in DOMAIN run :
        run[p].scan_failed
        => /\ run[p].existing_post_ids = {}
           /\ run[p].pc # "done"
                 => run[p].processed = IdsOf(SubSeq(run[p].posts, 1, run[p].j))
           /\ (run[p].pc = "done" /\ run[p].raised # Some(YamlError))
                 => /\ run[p].j = Len(run[p].posts)
                    /\ run[p].processed = IdsOf(run[p].posts)
           /\ (run[p].pc = "done" /\ run[p].result.status = "success")
                 => /\ Flatten(run[p].upserts) = IdsOf(run[p].all_chunks)
                    /\ \A n \in 1..Len(run[p].all_chunks) :
                          run[p].all_chunks[n].id \in DOMAIN collection

\* The index held the fetched posts already, the scan failed, and the run
\* upserted them again and returned success.
C30_Witness ==
    \E p \in DOMAIN run :
        /\ run[p].scan_failed
        /\ run[p].pc = "done"
        /\ run[p].result.status = "success"
        /\ run[p].posts # <<>>
        /\ \A n \in 1..Len(run[p].posts) :
              run[p].posts[n].id \in run[p].indexed_before
        /\ run[p].upserts # <<>>

=============================================================================
